---- MODULE Spec2Model ----
(***************************************************************************)
(* gen_pve_links_args.py: the resource allocation engine that wires        *)
(* point-to-point UDP links between VMs.  One run of main() is modelled as *)
(* a state machine: the configuration and the per-VM host snapshots are    *)
(* the inputs, then every link is processed (ports, then each endpoint),   *)
(* then the summary and the commands are printed.                          *)
(***************************************************************************)
EXTENDS Integers, Sequences, FiniteSets, TLC

\* ------------------------------------------------------------------ bounds
\* Longest topology (number of links) explored.
MaxLinks == 2

\* ------------------------------------------------------- program constants
\* Lowest usable PCI slot (range(0x02, 0x1e)).
PCI_FIRST == 2
\* Exclusive upper end of the usable PCI slots (0x1e).
PCI_END == 30
\* The second reserved bridge slot (0x1f); the first one is PCI_END (0x1e).
PCI_BRIDGE2 == 31
\* alloc_port: largest VM id, largest eth index, largest port.
MAX_VMID == 999
MAX_ETH == 9
MAX_PORT == 65535
\* Python's None where the code holds "no PCI address".
NoSlot == -1
\* pci_info / highest_existing_net_index: "nothing found".
NotFound == -1

Max(a, b) == IF a > b THEN a ELSE b

\* ------------------------------------------------ identity derivation
\* str(n) for n >= 0: the decimal digits, unpadded, most significant first.
RECURSIVE DecDigits(_)
DecDigits(n) == IF n < 10 THEN <<n>> ELSE Append(DecDigits(n \div 10), n % 10)

\* int(s) of a string of decimal digits.
RECURSIVE ParseDec(_)
ParseDec(s) ==
  IF s = <<>> THEN 0
  ELSE ParseDec(SubSeq(s, 1, Len(s) - 1)) * 10 + s[Len(s)]

\* Faulty variant of PortString: the eth index is left out of the string.
PortString_no_eth(d, vmid, eth_index) == <<d>> \o DecDigits(vmid)

\* int(f"{prefix_digit}{vmid}{eth_index}")
PortString(d, vmid, eth_index) == <<d>> \o DecDigits(vmid) \o DecDigits(eth_index)

\* f"{b:02x}": two hexadecimal digits of a byte.
Hex2(b) == <<b \div 16, b % 16>>

\* parse_mac_prefix: the first byte gets the locally-administered bit set
\* and the multicast bit cleared.
parse_mac_prefix(vals) ==
  LET b0 == vals[1]
      la == IF (b0 \div 2) % 2 = 0 THEN b0 + 2 ELSE b0
  IN  <<la - (la % 2), vals[2], vals[3]>>

\* Faulty variant of gen_mac: the high byte of the VM id is left out (00).
gen_mac_low_byte_only(mac_prefix, vmid, iface_index) ==
  Hex2(mac_prefix[1]) \o Hex2(mac_prefix[2]) \o Hex2(mac_prefix[3])
    \o Hex2(0) \o Hex2(vmid % 256) \o Hex2(iface_index % 256)

\* gen_mac: prefix bytes, high byte of vmid, low byte of vmid, iface index.
gen_mac(mac_prefix, vmid, iface_index) ==
  Hex2(mac_prefix[1]) \o Hex2(mac_prefix[2]) \o Hex2(mac_prefix[3])
    \o Hex2((vmid \div 256) % 256) \o Hex2(vmid % 256) \o Hex2(iface_index % 256)

\* Faulty variant of alloc_port_bad_ids: the eth index is not tested.
alloc_port_bad_ids_vm_only(vmid, eth_index) == vmid > MAX_VMID

\* The range test of alloc_port on the VM id and the eth index.
alloc_port_bad_ids(vmid, eth_index) == vmid > MAX_VMID \/ eth_index > MAX_ETH

\* Faulty variant of alloc_port_register: the port is returned but never entered
\* in the table.
alloc_port_register_lost(used, port, vmid, eth_index) == used

\* used_ports[port] = (vmid, eth_index)
alloc_port_register(used, port, vmid, eth_index) ==
  (port :> <<vmid, eth_index>>) @@ used

\* alloc_port: [err, port, used] where used is the table when the call ends.
alloc_port(used, d, vmid, eth_index) ==
  IF alloc_port_bad_ids(vmid, eth_index)
  THEN [err |-> "RangeError", port |-> 0, used |-> used]
  ELSE LET port == ParseDec(PortString(d, vmid, eth_index))
       IN  IF port > MAX_PORT
           THEN [err |-> "RangeError", port |-> port, used |-> used]
           ELSE IF port \in DOMAIN used /\ used[port] # <<vmid, eth_index>>
           THEN [err |-> "PortCollisionError", port |-> port, used |-> used]
           ELSE [err |-> "none", port |-> port,
                 used |-> alloc_port_register(used, port, vmid, eth_index)]

\* ------------------------------------------------ bus slot allocation
\* Faulty variant of FirstFree: the scan forgets to skip the used slots.
FirstFree_noskip(a, used) == IF a >= PCI_END THEN NoSlot ELSE a

\* for addr in range(a, PCI_END): the first addr not in used, or NoSlot.
RECURSIVE FirstFree(_, _)
FirstFree(a, used) ==
  IF a >= PCI_END THEN NoSlot
  ELSE IF a \notin used THEN a
  ELSE FirstFree(a + 1, used)

\* Faulty variant of alloc_pci: the strategy is not consulted, the scan always
\* starts above the highest NIC slot.
alloc_pci_always_next(strategy, used, highest) ==
  LET start == Max(highest + 1, PCI_FIRST)
      up    == IF start < PCI_END THEN FirstFree(start, used) ELSE NoSlot
      low   == FirstFree(PCI_FIRST, used)
      addr  == IF up # NoSlot THEN up ELSE low
  IN  IF addr = NoSlot
      THEN [addr |-> NoSlot, used |-> used, highest |-> highest]
      ELSE [addr |-> addr, used |-> used \cup {addr},
            highest |-> Max(highest, addr)]

\* Faulty variant of alloc_pci: under next_highest the scan above the
\* highest NIC slot is final, the scan from 0x02 is not tried after it.
alloc_pci_no_fallback(strategy, used, highest) ==
  LET start == Max(highest + 1, PCI_FIRST)
      up    == IF start < PCI_END THEN FirstFree(start, used) ELSE NoSlot
      low   == FirstFree(PCI_FIRST, used)
      addr  == IF strategy = "next_highest" THEN up ELSE low
  IN  IF addr = NoSlot
      THEN [addr |-> NoSlot, used |-> used, highest |-> highest]
      ELSE [addr |-> addr, used |-> used \cup {addr},
            highest |-> Max(highest, addr)]

\* alloc_pci for one VM: [addr, used, highest]; addr = NoSlot when the
\* usable range is exhausted (SystemExit).
alloc_pci(strategy, used, highest) ==
  LET start == Max(highest + 1, PCI_FIRST)
      up    == IF strategy = "next_highest" /\ start < PCI_END
               THEN FirstFree(start, used) ELSE NoSlot
      low   == FirstFree(PCI_FIRST, used)
      addr  == IF up # NoSlot THEN up ELSE low
  IN  IF addr = NoSlot
      THEN [addr |-> NoSlot, used |-> used, highest |-> highest]
      ELSE [addr |-> addr, used |-> used \cup {addr},
            highest |-> Max(highest, addr)]

\* ------------------------------------------------ address resolution
\* cfg["udp_map"].get(vm, cfg["udp_default_ip"])
resolve_ip(c, vm) ==
  IF vm \in DOMAIN c.udp_map THEN c.udp_map[vm] ELSE c.udp_default_ip

\* Faulty variant of loopback_rewrite: a common address is rewritten even when it
\* is a loopback address already.
loopback_rewrite_any(c, ipA, ipB) == c.loopback_if_same_host /\ ipA = ipB

\* The condition of the loopback rewrite.
loopback_rewrite(c, ipA, ipB) ==
  c.loopback_if_same_host /\ ipA = ipB /\ ipA \notin {"127.0.0.1", "::1"}

link_ips(c, A, B) ==
  LET ipA == resolve_ip(c, A)
      ipB == resolve_ip(c, B)
  IN  IF loopback_rewrite(c, ipA, ipB)
      THEN <<"127.0.0.1", "127.0.0.1">>
      ELSE <<ipA, ipB>>

\* ------------------------------------------------------------ inputs
EmptyFn == [x \in {} |-> 0]

\* mac_prefix default "bc:24:99" as parse_mac_prefix returns it.
DefaultMacPrefix == parse_mac_prefix(<<188, 36, 153>>)

\* Endpoints of the allocation scenarios: three interfaces of the VM whose
\* host state varies, one interface of its peer.
Endpoints == {<<10, 0>>, <<10, 1>>, <<10, 2>>, <<20, 0>>}

\* VMs whose host state is drawn from HostStates; every other VM is brand-new.
ProvisionedVms == {10}

\* add_counts: the VMs named by a set of links.
AddVms(L) == {l[1][1] : l \in L} \cup {l[2][1] : l \in L}

\* What the host readers return for a VM with no prior state, or when the
\* config file is absent and the query command fails.
FreshHost == [net_hi |-> NotFound, pci_used |-> {}, pci_hi |-> NotFound, nics |-> EmptyFn]

\* Results of pci_info: (used slots, highest NIC slot).
PciInfoChoices ==
  { <<{}, NotFound>>,                 \* no device found, or the query failed
    <<{2, 16, 21}, 16>>,              \* a NIC at 0x10 between two other devices
    <<{16, 17}, 16>>,                 \* a NIC at 0x10, another device at 0x11
    <<(2..29) \ {3}, 29>>,            \* one usable slot left, below the top NIC
    <<2..29, 29>> }                   \* every usable slot occupied

\* Results of highest_existing_net_index.
NetHiChoices == {NotFound, 1}

\* Results of collect_existing_nics for a VM.
NicsChoices(vm) ==
  LET m0 == gen_mac(DefaultMacPrefix, vm, 0)
      m1 == gen_mac(DefaultMacPrefix, vm, 1)
  IN  { EmptyFn,
        m0 :> <<0, 16>>,
        m0 :> <<0, 2>>,
        m0 :> <<0, 3>>,
        (m0 :> <<0, 16>>) @@ (m1 :> <<1, 17>>) }

HostStates(vm, P) ==
  { [net_hi |-> n, pci_used |-> p[1], pci_hi |-> p[2], nics |-> x] :
      n \in NetHiChoices, p \in P, x \in NicsChoices(vm) }

BaseCfg ==
  [ pci_alloc_strategy |-> "lowest_free", auto_pci_addr |-> FALSE,
    prefix_digit |-> 4, mac_prefix |-> DefaultMacPrefix, udp_map |-> EmptyFn,
    udp_default_ip |-> "127.0.0.1", loopback_if_same_host |-> TRUE ]

HostsFor(L, h) ==
  [vm \in AddVms(L) |-> IF vm \in ProvisionedVms THEN h ELSE FreshHost]

\* A scenario: the configuration without its links, the links the topology
\* is drawn from and its greatest length, and the host readers' results.
\* Allocation scenarios: every topology over Endpoints, both strategies,
\* every host state of the provisioned VM, explicit bus addressing.
AllocScenarios ==
  { [cfg  |-> [BaseCfg EXCEPT !.pci_alloc_strategy = s],
     topo |-> [choices |-> Endpoints \X Endpoints, max |-> MaxLinks],
     host |-> HostsFor(Endpoints \X Endpoints, h)] :
      s \in {"lowest_free", "next_highest"},
      h \in HostStates(10, PciInfoChoices) }

\* The same with bus addressing delegated (auto_pci_addr): pci_info is not
\* called.
DelegatedScenarios ==
  { [cfg  |-> [BaseCfg EXCEPT !.auto_pci_addr = TRUE],
     topo |-> [choices |-> Endpoints \X Endpoints, max |-> MaxLinks],
     host |-> HostsFor(Endpoints \X Endpoints, h)] :
      h \in HostStates(10, {<<{}, NotFound>>}) }

\* Port scenarios: one link whose first endpoint runs over the edges of the
\* port encoding, for several lead digits.
PortVmIds == {0, 9, 10, 99, 100, 553, 655, 999, 1000, 1001}
PortEths == {0, 5, 6, 9, 10, 11}
PortDigits == {0, 1, 4, 6, 7}
PortPeers == {<<10, 0>>, <<20, 0>>, <<20, 10>>, <<655, 3>>, <<1000, 0>>}

PortScenarios ==
  { [cfg  |-> [BaseCfg EXCEPT !.prefix_digit = d],
     topo |-> [choices |-> {<<<<v, e>>, B>>}, max |-> 1],
     host |-> HostsFor({<<<<v, e>>, B>>}, FreshHost)] :
      v \in PortVmIds, e \in PortEths, d \in PortDigits, B \in PortPeers }

\* Address scenarios: every mapping of the two VMs to an address, every
\* default address, the loopback policy on and off.
Addresses == {"127.0.0.1", "::1", "192.0.2.1", "192.0.2.2"}
AddrLinks == {<<<<10, 0>>, <<20, 0>>>>, <<<<20, 0>>, <<10, 0>>>>, <<<<10, 0>>, <<10, 1>>>>}
UdpMaps == UNION {[D -> Addresses] : D \in SUBSET {10, 20}}

AddrScenarios ==
  { [cfg  |-> [BaseCfg EXCEPT !.udp_map = m, !.udp_default_ip = dflt,
                             !.loopback_if_same_host = lb],
     topo |-> [choices |-> AddrLinks, max |-> 1],
     host |-> HostsFor(AddrLinks, FreshHost)] :
      m \in UdpMaps, dflt \in Addresses, lb \in BOOLEAN }

\* MAC scenarios: one link between any two endpoints whose VM ids lie on
\* both sides of the byte boundaries, for two prefixes.
MacVmIds == {0, 1, 255, 256, 257, 511, 512, 999}
MacEths == {0, 1, 9}
MacPrefixes == {DefaultMacPrefix, parse_mac_prefix(<<255, 255, 255>>)}
MacLinks == (MacVmIds \X MacEths) \X (MacVmIds \X MacEths)

MacScenarios ==
  { [cfg  |-> [BaseCfg EXCEPT !.mac_prefix = p],
     topo |-> [choices |-> MacLinks, max |-> 1],
     host |-> HostsFor(MacLinks, FreshHost)] : p \in MacPrefixes }

\* ------------------------------------------------ host state readers
\* The persisted config of a VM: absent, present but unreadable, or read;
\* nets are the N of its netN: lines.  A query of the hypervisor (one call
\* of "qm showcmd"): the call raised, exited non-zero, printed text no
\* pattern matches, or printed the device arguments.
SetMax(S, dflt) == IF S = {} THEN dflt ELSE CHOOSE x \in S : \A y \in S : y <= x

\* Faulty variant of highest_existing_net_index: 0 instead of -1 when the
\* file is absent or cannot be read.
highest_existing_net_index_zero(conf) ==
  IF conf.state # "read" THEN 0 ELSE SetMax(conf.nets, NotFound)

\* highest_existing_net_index: -1 when the file is absent, when reading it
\* raises, or when it has no netN: line.
highest_existing_net_index(conf) ==
  IF conf.state = "absent" THEN NotFound
  ELSE IF conf.state = "unreadable" THEN NotFound
  ELSE SetMax(conf.nets, NotFound)

\* The device arguments a query's output shows to the patterns.
Shown(q) == IF q.outcome = "devices" THEN q.devices ELSE {}

\* pci_info: (used, highest); both as initialised when the call raises or
\* exits non-zero.
pci_info(q) ==
  IF q.outcome \in {"raised", "nonzero"} THEN <<{}, NotFound>>
  ELSE << {d.addr : d \in Shown(q)},
          SetMax({d.addr : d \in {x \in Shown(q) : x.nic}}, NotFound) >>

\* collect_existing_nics: mac -> (net index, pci addr); empty when the call
\* raises or exits non-zero.
collect_existing_nics(q) ==
  IF q.outcome \in {"raised", "nonzero"} THEN EmptyFn
  ELSE LET N == {d \in Shown(q) : d.nic}
       IN  [m \in {d.mac : d \in N} |->
              LET d == CHOOSE x \in N : x.mac = m IN <<d.net, d.addr>>]

\* The readers' results for a VM, with the sources they were read from.
ReadHost(conf, qn, qp) ==
  [ net_hi |-> highest_existing_net_index(conf),
    pci_used |-> pci_info(qp)[1], pci_hi |-> pci_info(qp)[2],
    nics |-> collect_existing_nics(qn),
    raw |-> [conf |-> conf.state, nics_query |-> qn.outcome, pci_query |-> qp.outcome] ]

\* The device arguments of a VM with interface 0 at 0x10 (net0) and a
\* device that is no interface at 0x12; its config holds net0: and net1:.
DevicesOf(vm) ==
  { [nic |-> TRUE, mac |-> gen_mac(DefaultMacPrefix, vm, 0), net |-> 0, addr |-> 16],
    [nic |-> FALSE, mac |-> <<>>, net |-> 0, addr |-> 18] }
ConfChoices == {[state |-> st, nets |-> {0, 1}] : st \in {"absent", "unreadable", "read"}}
QueryChoices(vm) ==
  {[outcome |-> o, devices |-> DevicesOf(vm)] :
     o \in {"raised", "nonzero", "garbage", "devices"}}

IntrospectionEndpoints == {<<10, 0>>, <<10, 1>>, <<20, 0>>}

\* Introspection scenarios: every outcome of the three readers for VM 10
\* (the two queries are separate calls), a VM 20 unknown to the host.
IntrospectionScenarios ==
  { [cfg  |-> [BaseCfg EXCEPT !.pci_alloc_strategy = s],
     topo |-> [choices |-> IntrospectionEndpoints \X IntrospectionEndpoints,
               max |-> MaxLinks],
     host |-> (10 :> ReadHost(c, qn, qp))
                @@ (20 :> ReadHost([state |-> "absent", nets |-> {}],
                                   [outcome |-> "nonzero", devices |-> {}],
                                   [outcome |-> "nonzero", devices |-> {}]))] :
      s \in {"lowest_free", "next_highest"}, c \in ConfChoices,
      qn \in QueryChoices(10), qp \in QueryChoices(10) }

Scenarios ==
  AllocScenarios \cup DelegatedScenarios \cup PortScenarios \cup AddrScenarios
    \cup MacScenarios \cup IntrospectionScenarios

\* ------------------------------------------------------------- state
VARIABLES
  cfg,                  \* the configuration load_cfg returned, without the links
  topo,                 \* the links cfg["links"] is drawn from, its greatest length
  links,                \* cfg["links"] as far as the loop has read it
  host,                 \* what the host readers return for each VM
  existing_nics_by_vm,  \* vm -> (mac -> <<net index, pci addr>>)
  start_index,          \* vm -> first index for new interfaces
  current_index,        \* vm -> next index for a new interface
  pci_used,             \* vm -> set of used slots (no entry when delegated)
  highest_nic_slot,     \* vm -> highest NIC slot, NotFound if none
  per_vm_args,          \* vm -> the interfaces rendered for it, in order
  used_ports,           \* port -> <<vm, eth index>>
  reused_ifaces,        \* <<vm, eth, net index, pci addr>> of every reuse
  seen_vm_iface,        \* set of <<vm, eth index>>
  cur,                  \* the two tuples of the link being processed
  pc,                   \* "link", "epA", "epB", "print", "cmds", "done", "failed"
  err,                  \* the SystemExit raised, "none" before
  stdout,               \* the lines printed
  run,                  \* 1 in the first run, 2 in a rerun, 3 in a reordered run
  first_run             \* in a later run: the links it reads, and the
                        \* per_vm_args and the outcome of the first run

vars == <<cfg, topo, links, host, existing_nics_by_vm, start_index, current_index,
          pci_used, highest_nic_slot, per_vm_args, used_ports, reused_ifaces,
          seen_vm_iface, cur, pc, err, stdout, run, first_run>>

\* main, up to the loop over the links: the per-VM tables built from the
\* host readers' results.  The tables are built for every VM the topology
\* may name; only the entries of the VMs it does name are ever read.
StartTables(c, h) ==
  [ existing_nics_by_vm |-> [vm \in DOMAIN h |-> h[vm].nics],
    current_index       |-> [vm \in DOMAIN h |-> h[vm].net_hi + 1],
    pci_used            |-> IF c.auto_pci_addr THEN EmptyFn
                            ELSE [vm \in DOMAIN h |->
                                    h[vm].pci_used \cup {PCI_END, PCI_BRIDGE2}],
    highest_nic_slot    |-> IF c.auto_pci_addr THEN EmptyFn
                            ELSE [vm \in DOMAIN h |-> h[vm].pci_hi],
    per_vm_args         |-> [vm \in DOMAIN h |-> <<>>] ]

NoFirstRun == [links |-> <<>>, per_vm_args |-> EmptyFn, outcome |-> "none"]

Init ==
  \E s \in Scenarios :
    LET t == StartTables(s.cfg, s.host) IN
    /\ cfg = s.cfg
    /\ topo = s.topo
    /\ links = <<>>
    /\ host = s.host
    /\ existing_nics_by_vm = t.existing_nics_by_vm
    /\ current_index = t.current_index
    /\ start_index = t.current_index
    /\ pci_used = t.pci_used
    /\ highest_nic_slot = t.highest_nic_slot
    /\ per_vm_args = t.per_vm_args
    /\ used_ports = EmptyFn
    /\ reused_ifaces = <<>>
    /\ seen_vm_iface = {}
    /\ cur = <<>>
    /\ pc = "link"
    /\ err = "none"
    /\ stdout = <<>>
    /\ run = 1
    /\ first_run = NoFirstRun

\* The interfaces resolved so far for a VM, as <<position, record>> pairs.
Resolved(vm) == {<<i, per_vm_args[vm][i]>> : i \in 1..Len(per_vm_args[vm])}

\* ----------------------------------------------------------- actions
\* Where a SystemExit leaves the process.
Exited == "failed"

\* Faulty variant of loop_output: the command of an interface is printed as soon as
\* the interface is resolved.
loop_output_streaming(out, vm, rec) ==
  Append(out, [kind |-> "qm set", vm |-> vm, data |-> <<rec>>])

\* Faulty variant of loop_output: a comment line is printed for every
\* interface as soon as it is resolved.
loop_output_progress(out, vm, rec) ==
  Append(out, [kind |-> "start", vm |-> vm, data |-> rec.idx])

\* What the loop prints while it processes the links: nothing, the results
\* are collected in per_vm_args.
loop_output(out, vm, rec) == out

\* The links the loop can read next: any link of the topology's choices
\* while the topology may go on; in a later run, the next link of the
\* topology it was started on.
NextLinks ==
  IF run # 1
  THEN IF Len(links) < Len(first_run.links)
       THEN {first_run.links[Len(links) + 1]} ELSE {}
  ELSE IF Len(links) < topo.max THEN topo.choices ELSE {}

\* One tuple of the inner loop's list.
EndpointTuple(e, mac, local_ip, local_port, remote_ip, remote_port) ==
  [vm |-> e[1], eth |-> e[2], mac |-> mac,
   local_ip |-> local_ip, local_port |-> local_port,
   remote_ip |-> remote_ip, remote_port |-> remote_port]

\* Faulty variant of link_tuples: the second tuple repeats its own port as
\* the remote one.
link_tuples_own_port(A, B, macA, macB, ips, portA, portB) ==
  << EndpointTuple(A, macA, ips[1], portA, ips[2], portB),
     EndpointTuple(B, macB, ips[2], portB, ips[1], portB) >>

\* The list the inner loop runs over: each endpoint with its own address
\* and port as local, the other endpoint's as remote.
link_tuples(A, B, macA, macB, ips, portA, portB) ==
  << EndpointTuple(A, macA, ips[1], portA, ips[2], portB),
     EndpointTuple(B, macB, ips[2], portB, ips[1], portA) >>

\* The head of the loop body for the next link: addresses, MACs and the
\* two ports.
AllocPorts ==
  /\ pc = "link"
  /\ \E l \in NextLinks :
       LET A   == l[1]
           B   == l[2]
           ips == link_ips(cfg, A[1], B[1])
           pa  == alloc_port(used_ports, cfg.prefix_digit, A[1], A[2])
           pb  == alloc_port(pa.used, cfg.prefix_digit, B[1], B[2])
       IN  /\ links' = Append(links, l)
           /\ IF pa.err # "none"
              THEN /\ pc' = Exited /\ err' = pa.err
                   /\ used_ports' = pa.used
                   /\ cur' = cur
              ELSE IF pb.err # "none"
              THEN /\ pc' = Exited /\ err' = pb.err
                   /\ used_ports' = pb.used
                   /\ cur' = cur
              ELSE /\ pc' = "epA" /\ err' = err
                   /\ used_ports' = pb.used
                   /\ cur' = link_tuples(A, B,
                                         gen_mac(cfg.mac_prefix, A[1], A[2]),
                                         gen_mac(cfg.mac_prefix, B[1], B[2]),
                                         ips, pa.port, pb.port)
  /\ UNCHANGED <<cfg, topo, host, existing_nics_by_vm, start_index, current_index,
                 pci_used, highest_nic_slot, per_vm_args, reused_ifaces,
                 seen_vm_iface, stdout, run, first_run>>

\* Faulty variant of reuse_lookup: the MAC is never found (a comparison that never
\* matches), so nothing is reused.
reuse_lookup_never(nics, mac) == [found |-> FALSE, idx |-> NoSlot, pci |-> NoSlot]

\* existing.get(mac): the recorded <<net index, pci addr>> when the MAC is
\* present, else (None, None).
reuse_lookup(nics, mac) ==
  IF mac \in DOMAIN nics
  THEN [found |-> TRUE, idx |-> nics[mac][1], pci |-> nics[mac][2]]
  ELSE [found |-> FALSE, idx |-> NoSlot, pci |-> NoSlot]

\* Faulty variant of bump_index: the increment is forgotten.
bump_index_forgotten(index, vm) == index

\* current_index[vm] += 1
bump_index(index, vm) == [index EXCEPT ![vm] = @ + 1]

\* The inner loop body for one endpoint of the link: duplicate check, reuse
\* or new index, bus slot, rendering.
ResolveEndpoint ==
  /\ pc \in {"epA", "epB"}
  /\ LET t      == cur[IF pc = "epA" THEN 1 ELSE 2]
         vm     == t.vm
         old    == reuse_lookup(existing_nics_by_vm[vm], t.mac)
         reuse  == old.found
         idx    == IF reuse THEN old.idx ELSE current_index[vm]
         index1 == IF reuse THEN current_index
                   ELSE bump_index(current_index, vm)
         a      == alloc_pci(cfg.pci_alloc_strategy, pci_used[vm], highest_nic_slot[vm])
         addr   == IF cfg.auto_pci_addr THEN NoSlot
                   ELSE IF reuse THEN old.pci ELSE a.addr
         rec    == [eth |-> t.eth, mac |-> t.mac, idx |-> idx, addr |-> addr,
                    local_ip |-> t.local_ip, local_port |-> t.local_port,
                    remote_ip |-> t.remote_ip, remote_port |-> t.remote_port,
                    reused |-> reuse]
     IN  IF <<vm, t.eth>> \in seen_vm_iface
         THEN /\ pc' = Exited /\ err' = "DuplicateEndpointError"
              /\ UNCHANGED <<seen_vm_iface, current_index, pci_used, highest_nic_slot,
                             per_vm_args, reused_ifaces, stdout>>
         ELSE /\ seen_vm_iface' = seen_vm_iface \cup {<<vm, t.eth>>}
              /\ current_index' = index1
              /\ IF ~cfg.auto_pci_addr /\ ~reuse /\ a.addr = NoSlot
                 THEN /\ pc' = Exited /\ err' = "SlotExhaustionError"
                      /\ UNCHANGED <<pci_used, highest_nic_slot, per_vm_args,
                                     reused_ifaces, stdout>>
                 ELSE /\ pci_used' =
                           IF cfg.auto_pci_addr THEN pci_used
                           ELSE IF reuse
                                THEN [pci_used EXCEPT ![vm] = @ \cup {addr}]
                                ELSE [pci_used EXCEPT ![vm] = a.used]
                      /\ highest_nic_slot' =
                           IF cfg.auto_pci_addr \/ reuse THEN highest_nic_slot
                           ELSE [highest_nic_slot EXCEPT ![vm] = a.highest]
                      /\ reused_ifaces' =
                           IF ~cfg.auto_pci_addr /\ reuse
                           THEN Append(reused_ifaces, <<vm, t.eth, idx, addr>>)
                           ELSE reused_ifaces
                      /\ per_vm_args' = [per_vm_args EXCEPT ![vm] = Append(@, rec)]
                      /\ stdout' = loop_output(stdout, vm, rec)
                      /\ err' = err
                      /\ pc' = IF pc = "epA" THEN "epB" ELSE "link"
  /\ UNCHANGED <<cfg, topo, links, host, existing_nics_by_vm, start_index,
                 used_ports, cur, run, first_run>>

\* The loop over cfg["links"] ends: the topology has no further link.
EndOfLinks ==
  /\ pc = "link"
  /\ links # <<>>
  /\ run # 1 => Len(links) = Len(first_run.links)
  /\ pc' = "print"
  /\ UNCHANGED <<cfg, topo, links, host, existing_nics_by_vm, start_index,
                 current_index, pci_used, highest_nic_slot, per_vm_args, used_ports,
                 reused_ifaces, seen_vm_iface, cur, err, stdout, run, first_run>>

\* sorted(S) as a sequence.
RECURSIVE Sorted(_)
Sorted(S) ==
  IF S = {} THEN <<>>
  ELSE LET m == CHOOSE x \in S : \A y \in S : x <= y
       IN  <<m>> \o Sorted(S \ {m})

RECURSIVE StartLines(_)
StartLines(vms) ==
  IF vms = <<>> THEN <<>>
  ELSE <<[kind |-> "start", vm |-> vms[1], data |-> start_index[vms[1]]]>>
         \o StartLines(Tail(vms))

RECURSIVE CommandLines(_)
CommandLines(vms) ==
  IF vms = <<>> THEN <<>>
  ELSE << [kind |-> "vm", vm |-> vms[1], data |-> <<>>],
          [kind |-> "qm set", vm |-> vms[1], data |-> per_vm_args[vms[1]]] >>
         \o CommandLines(Tail(vms))

\* After the loop: the summary comment lines.
PrintSummary ==
  /\ pc = "print"
  /\ stdout' = stdout
       \o (IF DOMAIN used_ports # {}
           THEN <<[kind |-> "ports", vm |-> 0, data |-> Sorted(DOMAIN used_ports)]>>
           ELSE <<>>)
       \o (IF reused_ifaces # <<>>
           THEN <<[kind |-> "reused", vm |-> 0, data |-> reused_ifaces]>>
           ELSE <<>>)
       \o <<[kind |-> "header", vm |-> 0, data |-> <<>>]>>
       \o StartLines(Sorted(AddVms({links[i] : i \in 1..Len(links)})))
       \o <<[kind |-> "blank", vm |-> 0, data |-> <<>>]>>
  /\ pc' = "cmds"
  /\ UNCHANGED <<cfg, topo, links, host, existing_nics_by_vm, start_index,
                 current_index, pci_used, highest_nic_slot, per_vm_args, used_ports,
                 reused_ifaces, seen_vm_iface, cur, err, run, first_run>>

\* The last loop: one "qm set" command per VM.
PrintCommands ==
  /\ pc = "cmds"
  /\ stdout' = stdout
       \o CommandLines(Sorted({vm \in DOMAIN per_vm_args : per_vm_args[vm] # <<>>}))
  /\ pc' = "done"
  /\ UNCHANGED <<cfg, topo, links, host, existing_nics_by_vm, start_index,
                 current_index, pci_used, highest_nic_slot, per_vm_args, used_ports,
                 reused_ifaces, seen_vm_iface, cur, err, run, first_run>>

Next == AllocPorts \/ ResolveEndpoint \/ EndOfLinks \/ PrintSummary \/ PrintCommands

Spec == Init /\ [][Next]_vars

\* ------------------------------------------------------------- rerun
\* The commands of a finished run are applied and the tool is run again on
\* the same topology.  Every interface of the first run is then found by
\* collect_existing_nics with its MAC, index and slot (a delegated slot is
\* one the hypervisor chose); the other readers return what they returned
\* before, or what a rescan finds, or nothing.
AppliedNics(vm) ==
  LET R == Resolved(vm)
      M == {p[2].mac : p \in R}
  IN  [m \in M \cup DOMAIN host[vm].nics |->
         IF m \in M
         THEN LET p == CHOOSE q \in R : q[2].mac = m
              IN  <<p[2].idx, IF p[2].addr = NoSlot THEN 16 + p[1] ELSE p[2].addr>>
         ELSE host[vm].nics[m]]

RescanChoices == {"same", "rescanned", "failing"}

AppliedHost(vm, scan) ==
  LET slots == {AppliedNics(vm)[m][2] : m \in DOMAIN AppliedNics(vm)}
      top   == CHOOSE x \in slots \cup {NotFound} :
                 \A y \in slots \cup {NotFound} : y <= x
  IN  [ net_hi   |-> IF scan = "failing" THEN NotFound ELSE host[vm].net_hi,
        pci_used |-> IF scan = "failing" THEN {}
                     ELSE IF scan = "same" THEN host[vm].pci_used
                     ELSE host[vm].pci_used \cup slots,
        pci_hi   |-> IF scan = "failing" THEN NotFound
                     ELSE IF scan = "same" THEN host[vm].pci_hi
                     ELSE Max(host[vm].pci_hi, top),
        nics     |-> AppliedNics(vm) ]

Rerun ==
  /\ pc = "done"
  /\ run = 1
  /\ \E scan \in RescanChoices :
       LET h == [vm \in DOMAIN host |-> AppliedHost(vm, scan)]
           t == StartTables(cfg, h)
       IN  /\ host' = h
           /\ existing_nics_by_vm' = t.existing_nics_by_vm
           /\ current_index' = t.current_index
           /\ start_index' = t.current_index
           /\ pci_used' = t.pci_used
           /\ highest_nic_slot' = t.highest_nic_slot
           /\ per_vm_args' = t.per_vm_args
  /\ first_run' = [links |-> links, per_vm_args |-> per_vm_args, outcome |-> pc]
  /\ run' = 2
  /\ links' = <<>>
  /\ used_ports' = EmptyFn
  /\ reused_ifaces' = <<>>
  /\ seen_vm_iface' = {}
  /\ cur' = <<>>
  /\ pc' = "link"
  /\ stdout' = <<>>
  /\ UNCHANGED <<cfg, topo, err>>

SpecRerun == Init /\ [][Next \/ Rerun]_vars

\* ----------------------------------------------------- reordered run
\* The tool is run on the same host state with the same links in another
\* order: the two endpoints of one link exchanged, or two neighbouring
\* links exchanged.  The topology of the first run is the links it read.
SwapEndpoints(L, i) == [L EXCEPT ![i] = <<L[i][2], L[i][1]>>]
Transpose(L, i) == [L EXCEPT ![i] = L[i + 1], ![i + 1] = L[i]]
Reorderings(L) ==
  {SwapEndpoints(L, i) : i \in 1..Len(L)} \cup {Transpose(L, i) : i \in 1..(Len(L) - 1)}

Reordered ==
  /\ run = 1
  /\ pc \in {"done", "failed"}
  /\ \E L \in Reorderings(links) :
       first_run' = [links |-> L, per_vm_args |-> per_vm_args, outcome |-> pc]
  /\ LET t == StartTables(cfg, host)
     IN  /\ existing_nics_by_vm' = t.existing_nics_by_vm
         /\ current_index' = t.current_index
         /\ start_index' = t.current_index
         /\ pci_used' = t.pci_used
         /\ highest_nic_slot' = t.highest_nic_slot
         /\ per_vm_args' = t.per_vm_args
  /\ run' = 3
  /\ links' = <<>>
  /\ used_ports' = EmptyFn
  /\ reused_ifaces' = <<>>
  /\ seen_vm_iface' = {}
  /\ cur' = <<>>
  /\ pc' = "link"
  /\ err' = "none"
  /\ stdout' = <<>>
  /\ UNCHANGED <<cfg, topo, host>>

SpecReordered == Init /\ [][Next \/ Reordered]_vars

\* ------------------------------------------------------------ claims
\* C1: a newly allocated (not reused) device index of a VM is never the
\* index of an interface recorded in that VM's existing_nics_by_vm, nor
\* the index given to another endpoint of the same VM in the same run.
C1_NewIndexCollidesWithNothing ==
  \A vm \in DOMAIN per_vm_args :
    \A p \in Resolved(vm) :
      ~p[2].reused =>
        /\ \A m \in DOMAIN existing_nics_by_vm[vm] :
             existing_nics_by_vm[vm][m][1] # p[2].idx
        /\ \A q \in Resolved(vm) : q[1] # p[1] => q[2].idx # p[2].idx

\* C2 (idempotence): when the first run succeeded and its interfaces are
\* reflected back as existing ones, the rerun over the same topology does
\* not fail, and every endpoint it resolves is reused with the device index
\* and the bus slot the first run gave it; at its end it has resolved every
\* endpoint of the first run.
C2_RerunReproducesFirstRun ==
  run = 2 =>
    /\ pc # "failed"
    /\ \A vm \in DOMAIN per_vm_args :
         /\ Len(per_vm_args[vm]) <= Len(first_run.per_vm_args[vm])
         /\ pc = "done" => Len(per_vm_args[vm]) = Len(first_run.per_vm_args[vm])
         /\ \A i \in 1..Len(per_vm_args[vm]) :
              LET r == per_vm_args[vm][i]
                  f == first_run.per_vm_args[vm][i]
              IN  /\ r.eth = f.eth
                  /\ r.idx = f.idx
                  /\ r.addr = f.addr
                  /\ r.reused

\* C2 witness: a rerun has finished whose first run allocated a new index
\* and a new slot for an interface.
C2_Witness ==
  /\ run = 2
  /\ pc = "done"
  /\ \E vm \in DOMAIN per_vm_args :
       \E i \in 1..Len(per_vm_args[vm]) :
         /\ ~first_run.per_vm_args[vm][i].reused
         /\ first_run.per_vm_args[vm][i].addr # NoSlot
         /\ Len(first_run.links) = 2

\* Every endpoint resolved so far, with its record.
ResolvedEndpoints ==
  UNION {{<<<<vm, p[2].eth>>, p[2]>> : p \in Resolved(vm)} : vm \in DOMAIN per_vm_args}

\* C3: every allocated UDP port is unique across the run: at every moment
\* used_ports holds, for each port handed out, the one endpoint it was
\* derived for, no endpoint is registered under two ports, and no two
\* distinct endpoints resolved so far (so none after a successful run) have
\* the same local port.
C3_PortsUnique ==
  /\ \A x \in ResolvedEndpoints :
       /\ x[2].local_port \in DOMAIN used_ports
       /\ used_ports[x[2].local_port] = x[1]
  /\ \A p, q \in DOMAIN used_ports : used_ports[p] = used_ports[q] => p = q
  /\ \A x, y \in ResolvedEndpoints :
       x[1] # y[1] => x[2].local_port # y[2].local_port

\* C3 witness: a run over two links has succeeded, with four ports in use.
C3_Witness ==
  /\ pc = "done"
  /\ Cardinality(ResolvedEndpoints) = 4
  /\ Cardinality(DOMAIN used_ports) = 4

\* A step that allocates a new bus slot for vm (bus addressing not
\* delegated, the interface not reused).
NewSlotStep(vm) ==
  /\ ~cfg.auto_pci_addr
  /\ Len(per_vm_args'[vm]) = Len(per_vm_args[vm]) + 1
  /\ ~per_vm_args'[vm][Len(per_vm_args'[vm])].reused

NewSlot(vm) == per_vm_args'[vm][Len(per_vm_args'[vm])].addr

\* C4: when bus addressing is not delegated, used slots of a VM are at
\* every moment the slots read from the host, the two reserved slots and
\* the slots allocated or reused so far; every newly allocated slot lies in
\* 0x02..0x1d, is neither 0x1e nor 0x1f, was not in the VM's used slots when
\* it was allocated, and is added to them.
C4_NewSlotFreeAndUsable ==
  /\ [](~cfg.auto_pci_addr =>
          \A vm \in DOMAIN pci_used :
            pci_used[vm] = host[vm].pci_used \cup {30, 31}
                             \cup {p[2].addr : p \in Resolved(vm)})
  /\ [][\A vm \in DOMAIN per_vm_args :
          NewSlotStep(vm) =>
            /\ NewSlot(vm) \in 2..29
            /\ NewSlot(vm) \notin {30, 31}
            /\ NewSlot(vm) \notin pci_used[vm]
            /\ pci_used'[vm] = pci_used[vm] \cup {NewSlot(vm)}]_vars

\* C4 witness: a new slot was allocated on a VM after an interface of it
\* was reused, the host having reported used slots.
C4_Witness ==
  /\ ~cfg.auto_pci_addr
  /\ \E vm \in DOMAIN per_vm_args :
       /\ host[vm].pci_used # {}
       /\ \E p, q \in Resolved(vm) :
            p[1] < q[1] /\ p[2].reused /\ ~q[2].reused /\ q[2].addr > 2

\* The link being processed, and the endpoints of the links before it.
CurrentLink == links[Len(links)]
EarlierEndpoints ==
  {links[i][1] : i \in 1..(Len(links) - 1)} \cup {links[i][2] : i \in 1..(Len(links) - 1)}

\* The link being processed names an endpoint already seen in this run.
DuplicateLink ==
  /\ links # <<>>
  /\ \/ CurrentLink[1] \in EarlierEndpoints
     \/ CurrentLink[2] \in EarlierEndpoints
     \/ CurrentLink[1] = CurrentLink[2]

\* C5: a link with an endpoint already seen (in an earlier link, or as the
\* other endpoint of the same link) fails with DuplicateEndpointError and
\* with no other error; the check comes first, so when the run has failed
\* on such a link no port of an endpoint not seen before is registered and
\* no interface of that link is resolved.
C5_DuplicateCheckedFirst ==
  (pc = "failed" /\ DuplicateLink) =>
    /\ err = "DuplicateEndpointError"
    /\ \A p \in DOMAIN used_ports : used_ports[p] \in EarlierEndpoints
    /\ \A x \in ResolvedEndpoints : x[1] \in EarlierEndpoints

\* 10^k, for the digits of a port.
Pow10(k) == 10 ^ k

\* The integer whose decimal digits are d, then vmid unpadded, then the
\* single digit eth (vmid <= 999, eth <= 9).
DigitsValue(d, vmid, eth) ==
  LET k == IF vmid < 10 THEN 1 ELSE IF vmid < 100 THEN 2 ELSE 3
  IN  d * Pow10(k + 1) + vmid * 10 + eth

OutOfRange(d, e) ==
  e[1] > 999 \/ e[2] > 9 \/ DigitsValue(d, e[1], e[2]) > 65535

\* A step that derives the ports of a link.
PortStep == Len(links') = Len(links) + 1

\* C6: the port of an endpoint is the integer with the digits d, vmid,
\* eth index; deriving the ports of a link fails with RangeError exactly
\* when an endpoint has vmid > 999 or eth index > 9 or that integer above
\* 65535, and the failing derivation registers no port: the table is left
\* as it was, but for the port of the link's first endpoint when the second
\* one is at fault.
C6_DerivePort ==
  [][PortStep =>
       LET d == cfg.prefix_digit
           A == links'[Len(links')][1]
           B == links'[Len(links')][2]
           pA == DigitsValue(d, A[1], A[2])
           pB == DigitsValue(d, B[1], B[2])
       IN  /\ (err' = "RangeError") <=> (OutOfRange(d, A) \/ OutOfRange(d, B))
           /\ OutOfRange(d, A) => used_ports' = used_ports
           /\ (~OutOfRange(d, A) /\ OutOfRange(d, B)) =>
                /\ DOMAIN used_ports' = DOMAIN used_ports \cup {pA}
                /\ \A p \in DOMAIN used_ports' : used_ports'[p] # B
                /\ \A p \in DOMAIN used_ports : used_ports'[p] = used_ports[p]
           /\ (~OutOfRange(d, A) /\ ~OutOfRange(d, B)) =>
                /\ pc' = "epA"
                /\ cur'[1].local_port = pA /\ cur'[2].local_port = pB
                /\ cur'[1].remote_port = pB /\ cur'[2].remote_port = pA
                /\ used_ports'[pA] = A /\ used_ports'[pB] = B]_vars

\* C6 witness: RangeError for an endpoint whose ids are in range and whose
\* port is above 65535.
C6_Witness ==
  /\ pc = "failed"
  /\ err = "RangeError"
  /\ Len(links) = 1
  /\ links[1][1][1] <= 999 /\ links[1][1][2] <= 9
  /\ DigitsValue(cfg.prefix_digit, links[1][1][1], links[1][1][2]) = 65536
  /\ DOMAIN used_ports = {}

\* C7: no command is printed by a run that fails; a command is printed
\* only when every link read has been processed, both endpoints of each,
\* without error.
C7_NoCommandAfterFailure ==
  /\ pc = "failed" => \A i \in 1..Len(stdout) : stdout[i].kind # "qm set"
  /\ (\E i \in 1..Len(stdout) : stdout[i].kind = "qm set") =>
       /\ err = "none"
       /\ pc = "done"
       /\ Cardinality(ResolvedEndpoints) = 2 * Len(links)

\* C7 witness: a run has failed on its second link, after the interfaces of
\* the first one were resolved, and has printed nothing.
C7_Witness ==
  /\ pc = "failed"
  /\ Len(links) = 2
  /\ Cardinality(ResolvedEndpoints) >= 2
  /\ stdout = <<>>

MinOf(S) == CHOOSE x \in S : \A y \in S : x <= y
MaxOf(S) == CHOOSE x \in S : \A y \in S : y <= x

\* The usable slots not in the VM's used slots.
FreeSlots(vm) == {a \in 2..29 : a \notin pci_used[vm]}

\* The highest slot seen for a VM: the highest NIC slot the host reported,
\* the slots of its existing interfaces, the slots assigned in this run.
HighestSeen(vm) ==
  MaxOf({host[vm].pci_hi}
          \cup {existing_nics_by_vm[vm][m][2] : m \in DOMAIN existing_nics_by_vm[vm]}
          \cup {p[2].addr : p \in Resolved(vm)})

\* C8: under next_highest a new allocation returns the smallest free usable
\* slot above the highest slot ever seen for the VM (in its existing state
\* or assigned earlier in the run), and the lowest free usable slot only
\* when no free slot lies above it; so after an existing interface at 0x10
\* the next slot is 0x11 when 0x11 is free.
C8_NextHighestAboveHighestSeen ==
  [][\A vm \in DOMAIN per_vm_args :
       (NewSlotStep(vm) /\ cfg.pci_alloc_strategy = "next_highest") =>
         LET above == {a \in FreeSlots(vm) : a > HighestSeen(vm)}
         IN  NewSlot(vm) = IF above # {} THEN MinOf(above) ELSE MinOf(FreeSlots(vm))]_vars

\* A VM for which the host readers found nothing.
NoPriorState(vm) ==
  /\ host[vm].pci_used = {}
  /\ host[vm].pci_hi = -1
  /\ DOMAIN host[vm].nics = {}

\* C9: under lowest_free a new allocation returns the least slot of
\* 0x02..0x1d not in the VM's used slots at that moment; for a VM with no
\* prior state the k-th allocated slot is 0x02 + k - 1.
C9_LowestFree ==
  /\ []((~cfg.auto_pci_addr /\ cfg.pci_alloc_strategy = "lowest_free") =>
          \A vm \in DOMAIN per_vm_args :
            NoPriorState(vm) =>
              \A p \in Resolved(vm) : p[2].addr = 2 + p[1] - 1)
  /\ [][\A vm \in DOMAIN per_vm_args :
          (NewSlotStep(vm) /\ cfg.pci_alloc_strategy = "lowest_free") =>
            NewSlot(vm) = MinOf(FreeSlots(vm))]_vars

\* C9 witness: three slots allocated under lowest_free for a VM with no
\* prior state, the third one being 0x04.
C9_Witness ==
  /\ ~cfg.auto_pci_addr
  /\ cfg.pci_alloc_strategy = "lowest_free"
  /\ 10 \in DOMAIN host
  /\ NoPriorState(10)
  /\ Len(per_vm_args[10]) = 3
  /\ per_vm_args[10][3].addr = 4

\* C10: with the same-host-loopback policy enabled and both endpoints of a
\* link resolving (by the mapping or the default address) to one address
\* that is neither 127.0.0.1 nor ::1, both addresses become 127.0.0.1; in
\* every other case both are left as resolved.
C10_LoopbackRewrite ==
  pc \in {"epA", "epB"} =>
    LET rA == IF cur[1].vm \in DOMAIN cfg.udp_map
              THEN cfg.udp_map[cur[1].vm] ELSE cfg.udp_default_ip
        rB == IF cur[2].vm \in DOMAIN cfg.udp_map
              THEN cfg.udp_map[cur[2].vm] ELSE cfg.udp_default_ip
    IN  IF cfg.loopback_if_same_host /\ rA = rB /\ rA # "127.0.0.1" /\ rA # "::1"
        THEN cur[1].local_ip = "127.0.0.1" /\ cur[2].local_ip = "127.0.0.1"
        ELSE cur[1].local_ip = rA /\ cur[2].local_ip = rB

\* C10 witness: two VMs, one mapped and one on the default address, resolve
\* to the same non-loopback address and are rewritten.
C10_Witness ==
  /\ pc = "epA"
  /\ cur[1].vm # cur[2].vm
  /\ cur[1].vm \in DOMAIN cfg.udp_map
  /\ cur[2].vm \notin DOMAIN cfg.udp_map
  /\ cfg.udp_map[cur[1].vm] = "192.0.2.1"
  /\ cfg.udp_default_ip = "192.0.2.1"
  /\ cur[1].local_ip = "127.0.0.1" /\ cur[2].local_ip = "127.0.0.1"

\* Two hexadecimal digits read as a byte.
ByteOf(mac, k) == mac[2 * k - 1] * 16 + mac[2 * k]

\* The six bytes of a MAC.
MacBytes(mac) == [k \in 1..6 |-> ByteOf(mac, k)]

\* The endpoints of the links read so far.
LinkEndpoints ==
  {links[i][1] : i \in 1..Len(links)} \cup {links[i][2] : i \in 1..Len(links)}

\* C11: the MAC of an endpoint is made of the three prefix bytes, the high
\* byte of the VM id, its low byte and the interface index; for VM ids in
\* 0..999 and interface indices in 0..9 the two MACs of a link are equal
\* only when its endpoints are equal, and an interface that is reused was
\* found under a MAC that no other endpoint of the topology derives.
C11_MacLayoutInjective ==
  /\ pc \in {"epA", "epB"} =>
       /\ \A k \in {1, 2} :
            (cur[k].vm <= 999 /\ cur[k].eth <= 9) =>
              MacBytes(cur[k].mac) =
                <<cfg.mac_prefix[1], cfg.mac_prefix[2], cfg.mac_prefix[3],
                  cur[k].vm \div 256, cur[k].vm % 256, cur[k].eth>>
       /\ (cur[1].mac = cur[2].mac) <=>
            (cur[1].vm = cur[2].vm /\ cur[1].eth = cur[2].eth)
  /\ \A x, y \in ResolvedEndpoints : x[2].mac = y[2].mac => x[1] = y[1]
  /\ \A x \in ResolvedEndpoints :
       x[2].reused =>
         /\ x[2].mac \in DOMAIN existing_nics_by_vm[x[1][1]]
         /\ \A e \in LinkEndpoints :
              gen_mac(cfg.mac_prefix, e[1], e[2]) = x[2].mac => e = x[1]

\* C11 witness: the MACs of VM 0 and VM 256, which differ in the high byte
\* of the VM id only, have been derived for one link.
C11_Witness ==
  /\ pc = "epA"
  /\ cur[1].vm = 0 /\ cur[2].vm = 256
  /\ cur[1].eth = cur[2].eth
  /\ cur[1].mac # cur[2].mac
  /\ MacBytes(cur[2].mac)[4] = 1 /\ MacBytes(cur[2].mac)[5] = 0

\* The sources of a VM's host state that failed.
ConfFailed(vm) == host[vm].raw.conf \in {"absent", "unreadable"}
NicsQueryFailed(vm) == host[vm].raw.nics_query \in {"raised", "nonzero", "garbage"}
PciQueryFailed(vm) == host[vm].raw.pci_query \in {"raised", "nonzero", "garbage"}

\* C12: a failing source of a VM's host state never aborts the run and
\* gives the defaults of what it is read for: first new index 0 when the
\* config is absent or unreadable, no existing interface and no used slot
\* but the two reserved ones (and those assigned in the run) when the query
\* fails or its output is unparsable.  When all fail the VM is treated as
\* brand-new: nothing is reused, its k-th interface gets index k - 1 and
\* slot 0x02 + k - 1, and the run stops on a fault of the links only.
C12_IntrospectionFailureDegrades ==
  \A vm \in DOMAIN host :
    "raw" \in DOMAIN host[vm] =>
      /\ ConfFailed(vm) => start_index[vm] = 0
      /\ NicsQueryFailed(vm) =>
           /\ existing_nics_by_vm[vm] = EmptyFn
           /\ \A p \in Resolved(vm) : ~p[2].reused
      /\ PciQueryFailed(vm) =>
           pci_used[vm] = {30, 31} \cup {p[2].addr : p \in Resolved(vm)}
      /\ (ConfFailed(vm) /\ NicsQueryFailed(vm) /\ PciQueryFailed(vm)) =>
           /\ \A p \in Resolved(vm) :
                ~p[2].reused /\ p[2].idx = p[1] - 1 /\ p[2].addr = 2 + p[1] - 1
           /\ current_index[vm] \in {Len(per_vm_args[vm]), Len(per_vm_args[vm]) + 1}
      /\ (\A v \in DOMAIN host :
             ConfFailed(v) /\ NicsQueryFailed(v) /\ PciQueryFailed(v)) =>
           /\ err \in {"none", "DuplicateEndpointError"}
           /\ pc = "failed" => DuplicateLink

\* C12 witness: the config of VM 10 exists with net0: and net1: but cannot
\* be read, both queries exit non-zero, and a run over two links has given
\* the VM two new interfaces and has printed its commands.
C12_Witness ==
  /\ pc = "done"
  /\ 10 \in DOMAIN host
  /\ "raw" \in DOMAIN host[10]
  /\ host[10].raw = [conf |-> "unreadable", nics_query |-> "nonzero",
                     pci_query |-> "nonzero"]
  /\ Len(per_vm_args[10]) = 2
  /\ per_vm_args[10][2].idx = 1 /\ per_vm_args[10][2].addr = 3

\* The existing interfaces recorded for a VM have pairwise distinct slots.
ExistingSlotsDistinct(vm) ==
  \A m, n \in DOMAIN existing_nics_by_vm[vm] :
    existing_nics_by_vm[vm][m][2] = existing_nics_by_vm[vm][n][2] => m = n

\* C13: when bus addressing is not delegated and the existing interfaces
\* of a VM have pairwise distinct slots, no two interfaces resolved for the
\* VM in one run carry the same slot, whatever the order of the links and
\* whether or not the used-slot scan agrees with the existing-interface
\* scan.
C13_ResolvedSlotsDistinct ==
  ~cfg.auto_pci_addr =>
    \A vm \in DOMAIN per_vm_args :
      ExistingSlotsDistinct(vm) =>
        \A p, q \in Resolved(vm) : p[2].addr = q[2].addr => p[1] = q[1]

\* C14: for a fixed lead digit two different endpoints that pass the range
\* check never derive the same port: the two ports of a link differ unless
\* its endpoints are equal, every registered port belongs to the endpoint
\* whose digits it is made of, and no run ends in PortCollisionError.
C14_NoPortCollision ==
  /\ err # "PortCollisionError"
  /\ pc \in {"epA", "epB"} =>
       (cur[1].local_port = cur[2].local_port) <=>
         (cur[1].vm = cur[2].vm /\ cur[1].eth = cur[2].eth)
  /\ \A p \in DOMAIN used_ports :
       p = DigitsValue(cfg.prefix_digit, used_ports[p][1], used_ports[p][2])
  /\ \A e, f \in LinkEndpoints :
       (~OutOfRange(cfg.prefix_digit, e) /\ ~OutOfRange(cfg.prefix_digit, f)
          /\ ParseDec(PortString(cfg.prefix_digit, e[1], e[2]))
               = ParseDec(PortString(cfg.prefix_digit, f[1], f[2])))
         => e = f

\* C14 witness: a run has registered 4100 for eth0 of VM 10 and 41000 for
\* eth0 of VM 100, whose digit strings differ in length only.
C14_Witness ==
  /\ pc = "done"
  /\ cfg.prefix_digit = 4
  /\ {4100, 41000} \subseteq DOMAIN used_ports
  /\ used_ports[4100] = <<10, 0>>
  /\ used_ports[41000] = <<100, 0>>

\* The endpoint the inner loop is about to resolve.
CurrentEndpoint == cur[IF pc = "epA" THEN 1 ELSE 2]

\* A step of the inner loop that asks for a new slot for an endpoint of
\* vm: the endpoint passes the duplicate check, its MAC is not an existing
\* interface, bus addressing is not delegated.
NewSlotRequest(vm) ==
  /\ pc \in {"epA", "epB"}
  /\ CurrentEndpoint.vm = vm
  /\ ~cfg.auto_pci_addr
  /\ <<vm, CurrentEndpoint.eth>> \notin seen_vm_iface
  /\ CurrentEndpoint.mac \notin DOMAIN existing_nics_by_vm[vm]
  /\ pc' # pc

\* C15: under both strategies a new slot allocation for a VM fails with
\* SlotExhaustionError exactly when every slot of 0x02..0x1d is in the
\* VM's used slots, and succeeds whenever one is free; with bus addressing
\* delegated SlotExhaustionError is never raised.
C15_ExhaustionExactlyWhenFull ==
  /\ [](err = "SlotExhaustionError" => ~cfg.auto_pci_addr)
  /\ [][/\ \A vm \in DOMAIN per_vm_args :
            NewSlotRequest(vm) =>
              /\ (err' = "SlotExhaustionError") <=> (FreeSlots(vm) = {})
              /\ FreeSlots(vm) # {} =>
                   /\ pc' # "failed"
                   /\ Len(per_vm_args'[vm]) = Len(per_vm_args[vm]) + 1
                   /\ NewSlot(vm) \in FreeSlots(vm)
        /\ (err' = "SlotExhaustionError" /\ err = "none") =>
             \E vm \in DOMAIN per_vm_args : NewSlotRequest(vm)]_vars

\* C15 witness: under next_highest, with the highest NIC slot at 0x1d and
\* slot 0x03 alone free, a new interface got 0x03 and the next request
\* failed with SlotExhaustionError.
C15_Witness ==
  /\ pc = "failed"
  /\ err = "SlotExhaustionError"
  /\ cfg.pci_alloc_strategy = "next_highest"
  /\ \E vm \in DOMAIN per_vm_args :
       /\ host[vm].pci_hi = 29
       /\ \E p \in Resolved(vm) : ~p[2].reused /\ p[2].addr = 3

\* A step that resolves an endpoint of vm, and the record it appends.
ResolveStep(vm) == Len(per_vm_args'[vm]) = Len(per_vm_args[vm]) + 1
NewRecord(vm) == per_vm_args'[vm][Len(per_vm_args'[vm])]

\* The number of interfaces of vm that were newly allocated at positions
\* 1..n of its records.
RECURSIVE NewCount(_, _)
NewCount(vm, n) ==
  IF n = 0 THEN 0
  ELSE NewCount(vm, n - 1) + (IF per_vm_args[vm][n].reused THEN 0 ELSE 1)

\* C16: resolving an endpoint whose MAC is an existing interface leaves
\* the next index of every VM as it was and allocates no slot (the record
\* carries the recorded index and slot, the highest NIC slot stays);
\* resolving one with no match on a VM uses that VM's next index, then
\* raises it by one and leaves those of the other VMs.  So the k-th newly
\* allocated interface of a VM has index start_index + k - 1.
C16_IndexFrame ==
  /\ [](\A vm \in DOMAIN per_vm_args :
          \A p \in Resolved(vm) :
            ~p[2].reused => p[2].idx = start_index[vm] + NewCount(vm, p[1]) - 1)
  /\ [][\A vm \in DOMAIN per_vm_args :
          ResolveStep(vm) =>
            IF NewRecord(vm).mac \in DOMAIN existing_nics_by_vm[vm]
            THEN /\ NewRecord(vm).reused
                 /\ current_index' = current_index
                 /\ NewRecord(vm).idx = existing_nics_by_vm[vm][NewRecord(vm).mac][1]
                 /\ ~cfg.auto_pci_addr =>
                      /\ NewRecord(vm).addr = existing_nics_by_vm[vm][NewRecord(vm).mac][2]
                      /\ highest_nic_slot' = highest_nic_slot
                      /\ pci_used'[vm] = pci_used[vm] \cup {NewRecord(vm).addr}
            ELSE /\ ~NewRecord(vm).reused
                 /\ NewRecord(vm).idx = current_index[vm]
                 /\ current_index'[vm] = current_index[vm] + 1
                 /\ \A v \in DOMAIN current_index \ {vm} :
                      current_index'[v] = current_index[v]]_vars

\* C16 witness: a VM whose config ends at net1 has an interface reused at
\* index 0 between two newly allocated ones, which got indices 2 and 3.
C16_Witness ==
  \E vm \in DOMAIN per_vm_args :
    /\ start_index[vm] = 2
    /\ Len(per_vm_args[vm]) = 3
    /\ per_vm_args[vm][1].idx = 2 /\ ~per_vm_args[vm][1].reused
    /\ per_vm_args[vm][2].idx = 0 /\ per_vm_args[vm][2].reused
    /\ per_vm_args[vm][3].idx = 3 /\ ~per_vm_args[vm][3].reused

\* The record of a resolved endpoint.
RecordOf(e) == (CHOOSE x \in ResolvedEndpoints : x[1] = e)[2]

\* The links both endpoints of which have been resolved.
ResolvedLinks ==
  {i \in 1..Len(links) :
     /\ links[i][1] # links[i][2]
     /\ \E x \in ResolvedEndpoints : x[1] = links[i][1]
     /\ \E x \in ResolvedEndpoints : x[1] = links[i][2]
     /\ (i = Len(links) => pc \in {"link", "print", "cmds", "done"}
            \/ (pc = "failed" /\ Cardinality(ResolvedEndpoints) = 2 * Len(links)))}

\* C17: the two records of a link mirror each other: the remote address
\* and port of each are the local address and port of the other, the
\* addresses being those of the link after the loopback rewrite.
C17_RecordsMirror ==
  \A i \in ResolvedLinks :
    LET a == RecordOf(links[i][1])
        b == RecordOf(links[i][2])
        ips == link_ips(cfg, links[i][1][1], links[i][2][1])
    IN  /\ a.remote_ip = b.local_ip /\ a.remote_port = b.local_port
        /\ b.remote_ip = a.local_ip /\ b.remote_port = a.local_port
        /\ a.local_ip = ips[1] /\ b.local_ip = ips[2]
        /\ a.local_port = DigitsValue(cfg.prefix_digit, links[i][1][1], links[i][1][2])
        /\ b.local_port = DigitsValue(cfg.prefix_digit, links[i][2][1], links[i][2][2])

\* C17 witness: a link between two VMs on different addresses, neither
\* rewritten, has both records emitted.
C17_Witness ==
  /\ pc = "done"
  /\ Len(links) = 1
  /\ 1 \in ResolvedLinks
  /\ RecordOf(links[1][1]).local_ip = "192.0.2.1"
  /\ RecordOf(links[1][2]).local_ip = "192.0.2.2"
  /\ RecordOf(links[1][1]).remote_ip = "192.0.2.2"
  /\ RecordOf(links[1][1]).local_port # RecordOf(links[1][1]).remote_port

\* C18: the order of the links and of the two endpoints of a link does not
\* change the outcome: a run over the same links in another order, on the
\* same host state, ends as the first one did (success or failure), and
\* when it succeeds every endpoint has the MAC, local port, peer address
\* and peer port the first run gave it.
C18_OrderIrrelevant ==
  (run = 3 /\ pc \in {"done", "failed"}) =>
    /\ pc = first_run.outcome
    /\ pc = "done" =>
         \A vm \in DOMAIN per_vm_args :
           /\ Len(per_vm_args[vm]) = Len(first_run.per_vm_args[vm])
           /\ \A p \in Resolved(vm) :
                \E i \in 1..Len(first_run.per_vm_args[vm]) :
                  LET f == first_run.per_vm_args[vm][i]
                  IN  /\ f.eth = p[2].eth
                      /\ f.mac = p[2].mac
                      /\ f.local_port = p[2].local_port
                      /\ f.remote_ip = p[2].remote_ip
                      /\ f.remote_port = p[2].remote_port

\* The kinds of the summary comment lines.
CommentKinds == {"ports", "reused", "header", "start", "blank", "vm"}

\* C19 as stated: summary comment lines are emitted before every link has
\* been validated, so a run that fails on a link after the first one has
\* comment lines in its output.
C19_CommentsBeforeFailure ==
  (pc = "failed" /\ Len(links) >= 2) =>
    \E i \in 1..Len(stdout) : stdout[i].kind \in CommentKinds

\* C19 amended: no line, comment lines included, is emitted before every
\* link has been validated: the output is empty while the links are being
\* processed and in a run that has failed, and a comment line is emitted
\* only when every link read has had both endpoints resolved.
C19_NoCommentBeforeLoopEnds ==
  /\ pc \in {"link", "epA", "epB", "print", "failed"} => stdout = <<>>
  /\ (\E i \in 1..Len(stdout) : stdout[i].kind \in CommentKinds) =>
       /\ err = "none"
       /\ pc \in {"cmds", "done"}
       /\ Cardinality(ResolvedEndpoints) = 2 * Len(links)
       /\ stdout[1].kind = "ports"

\* C19 witness: a run has reused an existing interface in its first link,
\* has failed on its second link on a duplicate endpoint, and has emitted
\* nothing.
C19_Witness ==
  /\ pc = "failed"
  /\ err = "DuplicateEndpointError"
  /\ Len(links) = 2
  /\ reused_ifaces # <<>>
  /\ DOMAIN used_ports # {}
  /\ stdout = <<>>

====
